---- MODULE Spec2Model ----
(***************************************************************************)
(* Console Tic-Tac-Toe with a minimax opponent                             *)
(* (src/4. Tic-Tac-Toe Game/main.py): the board model, the minimax search, *)
(* the AI entry point and the game loop.                                   *)
(***************************************************************************)
EXTENDS Integers, Sequences, FiniteSets, TLC

VARIABLES
  board,         \* the list of 9 cells play_game owns and the search mutates
  current,       \* the side to move: "X" or "O"
  vs_ai,         \* play_game's vs_ai argument
  ai_symbol,     \* play_game's ai_symbol argument
  human_symbol,  \* play_game's human_symbol argument
  pc,            \* where the program is: "turn", "over", or the input's kind
  moves_applied, \* how many times play_game has run board[move] = current
  overwrote,     \* whether any write of a symbol has hit a cell that was not empty
  call           \* the last call made on the board, with what it returned

vars == <<board, current, vs_ai, ai_symbol, human_symbol, pc, moves_applied, overwrote, call>>

-----------------------------------------------------------------------------
(* Board representation *)

NumCells == 9
Cells == 0 .. (NumCells - 1)
Empty == " "
Symbols == {"X", "O"}
CellStates == {Empty} \cup Symbols
Boards == [Cells -> CellStates]
EmptyBoard == [i \in Cells |-> Empty]

\* Python's None as returned by winner(); and None as minimax's move.
None == "None"
NoMove == -1

\* available_moves: the indices of the empty cells, ascending.
available_moves(b) == SelectSeq(<<0, 1, 2, 3, 4, 5, 6, 7, 8>>, LAMBDA i : b[i] = Empty)

win_lines ==
  << <<0, 1, 2>>, <<3, 4, 5>>, <<6, 7, 8>>,
     <<0, 3, 6>>, <<1, 4, 7>>, <<2, 5, 8>>,
     <<0, 4, 8>>, <<2, 4, 6>> >>

\* The test of a line that forgets its third cell.
LineHeld_two_cells(b, l) == b[l[1]] # Empty /\ b[l[1]] = b[l[2]]

\* The test of one line: board[a] != " " and board[a] == board[b] == board[c].
LineHeld(b, l) == b[l[1]] # Empty /\ b[l[1]] = b[l[2]] /\ b[l[2]] = b[l[3]]

\* The for loop of winner from line k on: the first held line decides.
RECURSIVE winner_from(_, _)
winner_from(b, k) ==
  IF k > Len(win_lines) THEN None
  ELSE IF LineHeld(b, win_lines[k]) THEN b[win_lines[k][1]]
  ELSE winner_from(b, k + 1)

winner(b) == winner_from(b, 1)

\* is_draw with any() where the code has all().
is_draw_any(b) == winner(b) = None /\ \E i \in Cells : b[i] # Empty

is_draw(b) == winner(b) = None /\ \A i \in Cells : b[i] # Empty

-----------------------------------------------------------------------------
(* Minimax AI *)

\* The symbol minimax places at this level: ai when maximizing, else human.
mover(ai, human, maximizing) == IF maximizing THEN ai ELSE human

\* A seed inside the range of the scores, as the claims' checks try it.
seed_in_range(maximizing) == 0

\* best_score before the loop: -10 when maximizing, 10 when minimizing.
seed(maximizing) == IF maximizing THEN -10 ELSE 10

\* board[move] = ai (or human): the tentative move.
place(b, move, sym) == [b EXCEPT ![move] = sym]

\* The tentative move left on the board.
undo_skipped(b, move) == b

\* board[move] = " ": the tentative move taken back.
undo(b, move) == [b EXCEPT ![move] = Empty]

\* The comparisons the wrong way round, and with ties replacing the best.
improves_swapped(maximizing, score, best_score) ==
  IF maximizing THEN score < best_score ELSE score > best_score

improves_on_ties(maximizing, score, best_score) ==
  IF maximizing THEN score >= best_score ELSE score <= best_score

\* A comparison that never lets a candidate replace the best so far.
improves_never(maximizing, score, best_score) == FALSE

\* score > best_score when maximizing, score < best_score when minimizing.
improves(maximizing, score, best_score) ==
  IF maximizing THEN score > best_score ELSE score < best_score

\* What a call of minimax leaves behind: the returned (score, move), the
\* list it was given as the call leaves it, whether every placement the
\* call made went to a cell that was empty, and how many placements
\* (board[move] = ai, board[move] = human) it made, recursive calls included.
Results == [score : Int, move : Int, board : Boards, legal : BOOLEAN, placed : Nat]

result(score, move, b, legal, placed) ==
  [score |-> score, move |-> move, board |-> b, legal |-> legal, placed |-> placed]

\* One activation of minimax: its arguments, its locals, and where it is
\* ("call": at entry; "loop": at the head of the for loop with moves[k] next;
\* "after": the recursive call for moves[k] has returned sub).
Frames ==
  [pc : {"call", "loop", "after"}, board : Boards, ai : Symbols, human : Symbols,
   maximizing : BOOLEAN, moves : Seq(Cells), k : Nat, best_score : Int,
   best_move : Int, legal : BOOLEAN, placed : Nat, sub : Results]

\* The execution of minimax from a frame to its return.
search[f \in Frames] ==
  IF f.pc = "call" THEN
    IF winner(f.board) = f.ai THEN result(1, NoMove, f.board, f.legal, f.placed)
    ELSE IF winner(f.board) = f.human THEN result(-1, NoMove, f.board, f.legal, f.placed)
    ELSE IF is_draw(f.board) THEN result(0, NoMove, f.board, f.legal, f.placed)
    ELSE search[[f EXCEPT !.pc = "loop", !.moves = available_moves(f.board), !.k = 1,
                          !.best_score = seed(f.maximizing), !.best_move = NoMove]]
  ELSE IF f.pc = "loop" THEN
    IF f.k > Len(f.moves) THEN result(f.best_score, f.best_move, f.board, f.legal, f.placed)
    ELSE search[[f EXCEPT
           !.pc = "after",
           !.sub = search[[f EXCEPT
                     !.pc = "call",
                     !.board = place(f.board, f.moves[f.k], mover(f.ai, f.human, f.maximizing)),
                     !.maximizing = ~f.maximizing,
                     !.legal = f.legal /\ f.board[f.moves[f.k]] = Empty,
                     !.placed = f.placed + 1]]]]
  ELSE
    IF improves(f.maximizing, f.sub.score, f.best_score)
    THEN search[[f EXCEPT !.pc = "loop", !.board = undo(f.sub.board, f.moves[f.k]),
                          !.legal = f.sub.legal, !.placed = f.sub.placed, !.k = f.k + 1,
                          !.best_score = f.sub.score, !.best_move = f.moves[f.k]]]
    ELSE search[[f EXCEPT !.pc = "loop", !.board = undo(f.sub.board, f.moves[f.k]),
                          !.legal = f.sub.legal, !.placed = f.sub.placed, !.k = f.k + 1]]

\* minimax(board, ai, human, maximizing) -> (score, best_move_index).
minimax(b, ai, human, maximizing) ==
  search[[pc |-> "call", board |-> b, ai |-> ai, human |-> human,
          maximizing |-> maximizing, moves |-> <<>>, k |-> 0, best_score |-> 0,
          best_move |-> NoMove, legal |-> TRUE, placed |-> 0,
          sub |-> result(0, NoMove, b, TRUE, 0)]]

\* The rest of get_ai_move once minimax has returned r: the move minimax
\* returns; when that is None, moves[0] of the available moves, which raises
\* IndexError when that list is empty.
ai_move_of[r \in Results] ==
  IF r.move # NoMove THEN [move |-> r.move, error |-> None, search |-> r]
  ELSE IF Len(available_moves(r.board)) = 0
       THEN [move |-> NoMove, error |-> "IndexError", search |-> r]
       ELSE [move |-> available_moves(r.board)[1], error |-> None, search |-> r]

get_ai_move(b, ai, human) == ai_move_of[minimax(b, ai, human, TRUE)]

-----------------------------------------------------------------------------
(* Game loop *)

\* A switch of player that leaves the player as it is.
other_same(sym) == sym

\* current = "O" if current == "X" else "X".
other(sym) == IF sym = "X" THEN "O" ELSE "X"

count(b, sym) == Cardinality({i \in Cells : b[i] = sym})

\* What the model remembers of a call: the function, the list it was given,
\* the roles, what came back (minimax's score and move, get_ai_move's chosen
\* move or error), what the search did to the list (legal, placed), and what
\* winner and is_draw say of the list given.
call_record(fn, entry, ai, human, maximizing, score, move, chosen, error, legal, placed) ==
  [fn |-> fn, entry |-> entry, ai |-> ai, human |-> human, maximizing |-> maximizing,
   score |-> score, move |-> move, chosen |-> chosen, error |-> error, legal |-> legal,
   placed |-> placed, win |-> winner(entry), draw |-> is_draw(entry)]

no_call == call_record("none", EmptyBoard, "O", "X", TRUE, 0, NoMove, NoMove, None, TRUE, 0)

\* The three ways choose_mode_and_start calls play_game.
Modes ==
  { [vs_ai |-> TRUE, ai |-> "O", human |-> "X"],
    [vs_ai |-> TRUE, ai |-> "X", human |-> "O"],
    [vs_ai |-> FALSE, ai |-> "O", human |-> "X"] }

\* What the user may type at the prompt, as numbers; 0 and 10 stand for
\* every input get_human_move rejects without looking at the board.
Inputs == 0 .. 10

\* play_game up to its loop: an empty board, X to move.
Init ==
  /\ board = EmptyBoard
  /\ current = "X"
  /\ \E m \in Modes : vs_ai = m.vs_ai /\ ai_symbol = m.ai /\ human_symbol = m.human
  /\ pc = "turn"
  /\ moves_applied = 0
  /\ overwrote = FALSE
  /\ call = no_call

\* The loop body from board[move] = current on, for the list b as the turn's
\* move getter left it: the write, the end checks, the switch of player.
apply_move(b, move) ==
  /\ board' = place(b, move, current)
  /\ moves_applied' = moves_applied + 1
  /\ overwrote' = (overwrote \/ b[move] # Empty)
  /\ IF winner(place(b, move, current)) # None \/ is_draw(place(b, move, current))
     THEN pc' = "over" /\ current' = current
     ELSE pc' = "turn" /\ current' = other(current)

ai_to_move == vs_ai /\ current = ai_symbol

\* An input check that looks at the range only, not at the cell.
accepted_in_range(b, pos) == pos >= 1 /\ pos <= 9

\* get_human_move accepts pos: a number 1..9 whose cell is empty.
accepted(b, pos) == pos >= 1 /\ pos <= 9 /\ b[pos - 1] = Empty

\* A human turn whose input is accepted: one pass of the loop body.
HumanMove(pos) ==
  /\ pc = "turn"
  /\ ~ai_to_move
  /\ accepted(board, pos)
  /\ apply_move(board, pos - 1)
  /\ UNCHANGED <<vs_ai, ai_symbol, human_symbol, call>>

\* An input get_human_move rejects: it prints and prompts again.
HumanRetry(pos) ==
  /\ pc = "turn"
  /\ ~ai_to_move
  /\ ~accepted(board, pos)
  /\ UNCHANGED vars

\* An AI turn: get_ai_move, then the loop body; a raised error ends the program.
AITurn ==
  /\ pc = "turn"
  /\ ai_to_move
  /\ \E m \in {get_ai_move(board, ai_symbol, human_symbol)} :
       /\ call' = call_record("get_ai_move", board, ai_symbol, human_symbol, TRUE,
                              m.search.score, m.search.move, m.move, m.error, m.search.legal,
                              m.search.placed)
       /\ IF m.error = None
          THEN apply_move(m.search.board, m.move)
          ELSE /\ pc' = "crashed"
               /\ board' = m.search.board
               /\ UNCHANGED <<current, moves_applied, overwrote>>
  /\ UNCHANGED <<vs_ai, ai_symbol, human_symbol>>

Next ==
  \/ \E pos \in Inputs : HumanMove(pos)
  \/ \E pos \in Inputs : HumanRetry(pos)
  \/ AITurn

Spec == Init /\ [][Next]_vars

\* An AI turn as the loop sees it: get_ai_move returns and the loop goes on
\* to the next turn or to the end of the game, or get_ai_move raises and
\* the program stops. AITurn is the only step there is from such a state,
\* and it changes pc or current.
AIReturns ==
  /\ pc = "turn"
  /\ ai_to_move
  /\ pc' \in {"turn", "over", "crashed"}
  /\ current' \in Symbols

\* play_game run to its end: the AI's turn is a computation that comes to
\* its end, and the human, asked again after every rejected input, ends up
\* typing an input that is accepted.
SpecLive ==
  /\ Init /\ [][Next]_vars
  /\ WF_<<pc, current>>(AIReturns)
  /\ WF_vars(\E pos \in Inputs : HumanMove(pos))

-----------------------------------------------------------------------------
(* The engine on every position of legal alternating play *)

empties(b) == Len(available_moves(b))

\* Two humans play (play_game(vs_ai=False)); the search is called from outside.
InitSearch == Init /\ vs_ai = FALSE

\* get_ai_move(board, ai, human) on the position reached, for the side to
\* move (either side once the game is over).
AskAI(ai) ==
  /\ pc \in {"turn", "over"}
  /\ pc = "turn" => ai = current
  /\ \E m \in {get_ai_move(board, ai, other(ai))} :
       /\ call' = call_record("get_ai_move", board, ai, other(ai), TRUE,
                              m.search.score, m.search.move, m.move, m.error, m.search.legal,
                              m.search.placed)
       /\ board' = m.search.board
  /\ pc' = "returned"
  /\ UNCHANGED <<current, vs_ai, ai_symbol, human_symbol, moves_applied, overwrote>>

\* minimax(board, ai, human, False) on the position reached, human to move
\* (either side once the game is over).
SearchMin(ai) ==
  /\ pc \in {"turn", "over"}
  /\ pc = "turn" => other(ai) = current
  /\ \E r \in {minimax(board, ai, other(ai), FALSE)} :
       /\ call' = call_record("minimax", board, ai, other(ai), FALSE,
                              r.score, r.move, NoMove, None, r.legal, r.placed)
       /\ board' = r.board
  /\ pc' = "returned"
  /\ UNCHANGED <<current, vs_ai, ai_symbol, human_symbol, moves_applied, overwrote>>

NextSearch ==
  \/ \E pos \in Inputs : HumanMove(pos)
  \/ \E ai \in Symbols : AskAI(ai)
  \/ \E ai \in Symbols : SearchMin(ai)

SpecSearch == InitSearch /\ [][NextSearch]_vars

-----------------------------------------------------------------------------
(* The board model and the entry point on arbitrary boards *)

\* The most empty cells of an arbitrary board get_ai_move is called on here.
MaxDecide == 3

\* Any list of 9 cells, however it came about.
InitBoards ==
  /\ board \in Boards
  /\ current = "X"
  /\ vs_ai = TRUE
  /\ ai_symbol = "O"
  /\ human_symbol = "X"
  /\ pc = "given"
  /\ moves_applied = 0
  /\ overwrote = FALSE
  /\ call = no_call

\* winner(board) and is_draw(board) on the board given.
Judge ==
  /\ pc = "given"
  /\ call' = call_record("winner", board, ai_symbol, human_symbol, TRUE,
                         0, NoMove, NoMove, None, TRUE, 0)
  /\ pc' = "judged"
  /\ UNCHANGED <<board, current, vs_ai, ai_symbol, human_symbol, moves_applied, overwrote>>

\* get_ai_move(board, ai, human) on the board given.
AskAny(ai) ==
  /\ pc = "given"
  /\ empties(board) <= MaxDecide
  /\ \E m \in {get_ai_move(board, ai, other(ai))} :
       /\ call' = call_record("get_ai_move", board, ai, other(ai), TRUE,
                              m.search.score, m.search.move, m.move, m.error, m.search.legal,
                              m.search.placed)
       /\ board' = m.search.board
  /\ pc' = "returned"
  /\ UNCHANGED <<current, vs_ai, ai_symbol, human_symbol, moves_applied, overwrote>>

NextBoards ==
  \/ Judge
  \/ \E ai \in Symbols : AskAny(ai)

SpecBoards == InitBoards /\ [][NextBoards]_vars

-----------------------------------------------------------------------------
(* The game-theoretic value, by backward induction over the positions *)

\* The eight lines as sets of cells.
line_sets == {{win_lines[k][1], win_lines[k][2], win_lines[k][3]} : k \in 1 .. Len(win_lines)}

has_line(b, sym) == \E l \in line_sets : \A i \in l : b[i] = sym

pieces(b) == count(b, "X") + count(b, "O")

\* X moves first and turns alternate: X is to move when the counts are equal.
to_move(b) == IF count(b, "X") = count(b, "O") THEN "X" ELSE "O"

\* The boards with n symbols on which X has moved as often as O, or once more.
level(n) ==
  {b \in Boards : pieces(b) = n /\ count(b, "X") - count(b, "O") \in {0, 1}}

over(b) == has_line(b, "X") \/ has_line(b, "O") \/ pieces(b) = NumCells

\* The value for X of a position where the game is over.
final_x(b) == IF has_line(b, "X") THEN 1 ELSE IF has_line(b, "O") THEN -1 ELSE 0

set_max(S) == CHOOSE x \in S : \A y \in S : y <= x
set_min(S) == CHOOSE x \in S : \A y \in S : x <= y

\* The value for X of b, given the values of the positions one move on:
\* X takes the largest value among the successors, O the smallest.
value_from(b, next) ==
  IF over(b) THEN final_x(b)
  ELSE IF to_move(b) = "X"
       THEN set_max({next[place(b, i, "X")] : i \in {j \in Cells : b[j] = Empty}})
       ELSE set_min({next[place(b, i, "O")] : i \in {j \in Cells : b[j] = Empty}})

\* The values of the positions with n symbols, from those with n + 1.
RECURSIVE value_table(_)
value_table(n) ==
  IF n = NumCells THEN [b \in level(n) |-> final_x(b)] @@ <<>>
  ELSE CHOOSE t \in {([b \in level(n) |-> value_from(b, next)] @@ <<>>) :
                       next \in {value_table(n + 1)}} : TRUE

value_tables == [n \in 0 .. NumCells |-> value_table(n)]

\* The value of a position of alternating play for the side ai:
\* +1 ai can force a win, 0 a draw is forced, -1 the other side can force a win.
value_for(b, ai) ==
  IF ai = "X" THEN value_tables[pieces(b)][b] ELSE 0 - value_tables[pieces(b)][b]

-----------------------------------------------------------------------------
(* Claims *)

\* C1: in a game against the AI, from the empty board, with the AI as X or
\* as O and whatever legal moves the human plays, no board is reached whose
\* winner is the human's symbol, and a finished game is an AI win or a draw.
C1_AINeverLoses ==
  vs_ai =>
    /\ winner(board) # human_symbol
    /\ pc # "crashed"
    /\ pc = "over" => (winner(board) = ai_symbol \/ is_draw(board))

\* A finished game the AI, playing second as O, has won.
C1_Witness ==
  vs_ai /\ pc = "over" /\ ai_symbol = "O" /\ winner(board) = "O" /\ call.fn = "get_ai_move"

\* C6: on the empty board with AI = X and maximizing, minimax returns score 0
\* and a corner or the centre as its move.
C6_EmptyBoardOpening ==
  (call.fn = "get_ai_move" /\ call.entry = EmptyBoard /\ call.ai = "X" /\ call.maximizing)
    => (call.score = 0 /\ call.move \in {0, 2, 4, 6, 8})

\* The AI, as X, has been asked for the first move of the game.
C6_Witness ==
  /\ call.fn = "get_ai_move" /\ call.entry = EmptyBoard /\ call.ai = "X"
  /\ vs_ai /\ ai_symbol = "X" /\ moves_applied = 1 /\ board[call.move] = "X"

\* The boards of the spec's concrete scenarios.
Scenario1 == [i \in Cells |-> IF i \in {0, 1} THEN "X" ELSE IF i \in {3, 4} THEN "O" ELSE Empty]
Scenario2 == [i \in Cells |-> IF i \in {0, 2, 4} THEN "X" ELSE IF i \in {1, 3, 5} THEN "O" ELSE Empty]

\* C3, as claimed: on [X,O,X, O,X,O, _,_,_] with AI = O to move the engine
\* returns a move with score 0, never -1.
C3_Claimed ==
  (call.fn = "get_ai_move" /\ call.entry = Scenario2 /\ call.ai = "O")
    => (call.score = 0 /\ call.move # NoMove)

\* C3, amended: on that board with AI = O to move the engine returns move 6
\* with score -1; X threatens cells 6 and 8 at once, and every reply of O
\* leaves X a winning move.
C3_ForcedLoss ==
  (call.fn = "get_ai_move" /\ call.entry = Scenario2 /\ call.ai = "O")
    => /\ call.score = -1 /\ call.move = 6 /\ call.chosen = 6
       /\ \A i \in {6, 7, 8} : \E j \in {6, 7, 8} \ {i} :
            winner(place(place(Scenario2, i, "O"), j, "X")) = "X"

\* get_ai_move has been called on the scenario's board with AI = O.
C3_Witness ==
  call.fn = "get_ai_move" /\ call.entry = Scenario2 /\ call.ai = "O" /\ pc = "returned"

\* Line k of win_lines has the symbol sym in its three cells.
held_by(b, k, sym) == \A n \in 1 .. 3 : b[win_lines[k][n]] = sym

\* The first line, in the order of win_lines, that sym holds (9 when none).
first_held(b, sym) ==
  IF \E k \in 1 .. Len(win_lines) : held_by(b, k, sym)
  THEN CHOOSE k \in 1 .. Len(win_lines) :
         held_by(b, k, sym) /\ \A j \in 1 .. (k - 1) : ~held_by(b, j, sym)
  ELSE Len(win_lines) + 1

\* C4, as claimed: a board with S on all three cells of a line, and anything
\* in the other six cells, makes winner return S.
C4_Claimed ==
  pc = "judged" =>
    \A k \in 1 .. Len(win_lines) : \A sym \in Symbols :
      held_by(board, k, sym) => call.win = sym

\* C4, amended: on such a board winner returns the symbol of the first held
\* line in the listed order: S when the first line S holds comes before every
\* line the other symbol holds (so whenever the other symbol holds no line),
\* the other symbol otherwise.
C4_FirstHeldLineWins ==
  pc = "judged" =>
    \A k \in 1 .. Len(win_lines) : \A sym \in Symbols :
      held_by(board, k, sym) =>
        call.win = IF first_held(board, sym) < first_held(board, other(sym))
                   THEN sym ELSE other(sym)

\* winner has judged a board on which X holds the last line, a diagonal, and
\* O holds none.
C4_Witness ==
  /\ pc = "judged" /\ held_by(board, 8, "X") /\ first_held(board, "X") = 8
  /\ first_held(board, "O") = 9 /\ call.win = "X"

\* C5: with no line of three equal symbols, a board with no empty cell is a
\* draw (winner None, is_draw True) and a board with an empty cell is in
\* progress (winner None, is_draw False).
C5_DrawOrInProgress ==
  (pc = "judged" /\ ~has_line(board, "X") /\ ~has_line(board, "O")) =>
    /\ call.win = None
    /\ call.draw = (\A i \in Cells : board[i] # Empty)

\* Both cases have been judged: the witness is a board in progress with
\* symbols on it.
C5_Witness ==
  /\ pc = "judged" /\ ~has_line(board, "X") /\ ~has_line(board, "O")
  /\ empties(board) = 2 /\ call.win = None /\ ~call.draw

\* C9: when the search returns no move, get_ai_move falls back to the first
\* legal move, and on a board with no legal move it fails with NoLegalMoveError.
C9_Claimed ==
  (call.fn = "get_ai_move" /\ call.move = NoMove) =>
    IF empties(call.entry) > 0
    THEN call.error = None /\ call.chosen = available_moves(call.entry)[1]
    ELSE call.error = "NoLegalMoveError"

\* The last call ran minimax (get_ai_move runs it with maximizing = True).
searched == call.fn \in {"minimax", "get_ai_move"}

\* The last call ran minimax on a position where the game was not over.
searched_in_play == searched /\ call.win = None /\ ~call.draw

\* The symbol the last call's top level places.
call_mover == mover(call.ai, call.human, call.maximizing)

\* The value, for the call's AI, of the position after move i of the call's mover.
child_value(i) == value_for(place(call.entry, i, call_mover), call.ai)

\* The empty cells of the position the call was given.
call_moves == {i \in Cells : call.entry[i] = Empty}

\* C2: on every position of legal alternating play where the game is not
\* over, with the AI to move when maximizing and the human to move otherwise,
\* the score minimax returns is the game-theoretic value of the position for
\* the AI, and the position after the returned move has that same value.
C2_ScoreIsGameValue ==
  (searched_in_play /\ call_mover = to_move(call.entry)) =>
    /\ call.score = value_for(call.entry, call.ai)
    /\ call.move \in call_moves
    /\ child_value(call.move) = call.score

\* A search for a side that can force a win, and has more than one move.
C2_Witness ==
  /\ searched_in_play /\ call.fn = "minimax" /\ ~call.maximizing
  /\ call.score = 1 /\ call.ai = "X" /\ empties(call.entry) = 6

\* C7: on [X,X,_, O,O,_, _,_,_] with AI = X to move, get_ai_move returns
\* index 2 and the minimax call under it returns score +1.
C7_ImmediateWin ==
  (call.fn = "get_ai_move" /\ call.entry = Scenario1 /\ call.ai = "X")
    => (call.chosen = 2 /\ call.score = 1 /\ call.error = None)

\* In a game the AI plays as X, get_ai_move has been called on the scenario's
\* board and its move has been applied.
C7_Witness ==
  /\ call.fn = "get_ai_move" /\ call.entry = Scenario1 /\ call.ai = "X"
  /\ vs_ai /\ ai_symbol = "X" /\ moves_applied = 5 /\ board = place(Scenario1, 2, "X")

\* C8: when a call of minimax returns, the board is cell by cell the board
\* the call was entered with; every position of alternating play is the
\* entry of such a call, as the recursive calls' positions are.
C8_BoardRestored ==
  searched => (board = call.entry /\ \A i \in Cells : board[i] = call.entry[i])

\* A search that has placed and taken back moves at several depths.
C8_Witness ==
  /\ searched_in_play /\ call.fn = "minimax" /\ empties(call.entry) >= 3
  /\ call.move # NoMove /\ board = call.entry /\ pieces(board) >= 1

\* The largest and the smallest value among the call's moves.
best_child_value ==
  IF call.maximizing THEN set_max({child_value(i) : i \in call_moves})
  ELSE set_min({child_value(i) : i \in call_moves})

\* C10: on a position where the game is not over, minimax returns the
\* lowest-index legal move whose score is the best score: the maximum when
\* maximizing, the minimum when minimizing; no higher-index move of equal
\* score is returned, even one that ends the game sooner.
C10_LowestIndexAmongBest ==
  (searched_in_play /\ call_mover = to_move(call.entry)) =>
    /\ call.move \in call_moves
    /\ child_value(call.move) = best_child_value
    /\ \A i \in call_moves : child_value(i) = best_child_value => call.move <= i

\* The AI is returned a winning move that does not end the game, while a
\* higher-index move would have won at once.
C10_Witness ==
  /\ searched_in_play /\ call.maximizing /\ call_mover = to_move(call.entry)
  /\ call.score = 1
  /\ winner(place(call.entry, call.move, call.ai)) = None
  /\ \E i \in call_moves : i > call.move /\ winner(place(call.entry, i, call.ai)) = call.ai

\* C11: on a board where the game is over minimax returns without placing a
\* symbol and with no move, the score being +1 when winner gives the AI's
\* symbol, -1 when it gives the human's, 0 when the board is a draw; and the
\* score of every call, whatever the position and the flag, is -1, 0 or +1,
\* never a seed.
C11_TerminalScores ==
  searched =>
    /\ call.win = call.ai => (call.score = 1 /\ call.move = NoMove /\ call.placed = 0)
    /\ call.win = call.human => (call.score = -1 /\ call.move = NoMove /\ call.placed = 0)
    /\ call.draw => (call.score = 0 /\ call.move = NoMove /\ call.placed = 0)
    /\ call.score \in {-1, 0, 1}
    /\ call.score # seed(TRUE) /\ call.score # seed(FALSE)

\* minimax has returned on a finished game the human's symbol has won.
C11_Witness ==
  /\ call.fn = "minimax" /\ pc = "returned" /\ call.win = call.human /\ call.win # None
  /\ call.score = -1 /\ call.move = NoMove /\ call.placed = 0 /\ board = call.entry

\* C12: on every board where the game is not over (no winner, an empty cell),
\* with either flag, the first candidate replaces the seed, so minimax
\* returns a move, and the move is the index of a cell that is empty on the
\* board given; get_ai_move then returns that move and its fallback branch
\* is not taken.
C12_MoveReturned ==
  searched_in_play =>
    /\ call.move # NoMove
    /\ call.move \in Cells /\ call.entry[call.move] = Empty
    /\ call.fn = "get_ai_move" => (call.chosen = call.move /\ call.error = None)

\* get_ai_move on a position the AI loses whatever it plays: every candidate
\* scores -1, and the first one, which replaced the seed, is the move returned.
C12_Witness ==
  /\ searched_in_play /\ call.fn = "get_ai_move" /\ call.score = -1
  /\ empties(call.entry) >= 2
  /\ call.move = available_moves(call.entry)[1] /\ call.chosen = call.move

\* C13: in every state play_game reaches, with an AI or with two humans, the
\* number of X cells minus the number of O cells is 0 or 1; and between
\* turns the side to move is X exactly when the difference is 0.
C13_TurnsAlternate ==
  /\ count(board, "X") - count(board, "O") \in {0, 1}
  /\ pc = "turn" => (current = "X" <=> count(board, "X") = count(board, "O"))
  /\ pc = "turn" => (current = "O" <=> count(board, "X") = count(board, "O") + 1)

\* Between turns of a game against the AI playing X, five moves in: X has
\* three cells, O two, and O is to move.
C13_Witness ==
  /\ pc = "turn" /\ vs_ai /\ ai_symbol = "X" /\ moves_applied = 5
  /\ count(board, "X") = 3 /\ count(board, "O") = 2 /\ current = "O"

\* C14: in a game from the empty board, whatever the human types, every
\* write of a symbol goes to an index 0..8 whose cell is empty at that
\* moment: the writes of the game loop (board[move] = current) and the
\* tentative writes of minimax under every get_ai_move of the game.
C14_WritesHitEmptyCells ==
  /\ ~overwrote
  /\ call.fn = "get_ai_move" =>
       /\ call.legal
       /\ call.error = None => (call.chosen \in Cells /\ call.entry[call.chosen] = Empty)

\* A game against the AI, six moves in: the loop has written for both sides
\* and the search has placed symbols tentatively, all on empty cells.
C14_Witness ==
  /\ vs_ai /\ moves_applied = 6 /\ pieces(board) = 6 /\ ~overwrote
  /\ call.fn = "get_ai_move" /\ call.placed > 1 /\ call.legal
  /\ board[call.chosen] = ai_symbol

\* C15: when the human ends up giving a legal move on each of their turns,
\* every game of play_game comes to its end; at most 9 moves are applied; the
\* game is over exactly when the board has a line of three or is full, so it
\* ends at the first such board; and no move is applied to such a board.
C15_GameEnds ==
  /\ <>(pc = "over")
  /\ [](moves_applied <= NumCells /\ moves_applied = pieces(board))
  /\ [](pc = "over" <=> over(board))
  /\ [][over(board) => (board' = board /\ moves_applied' = moves_applied)]_vars

\* A game against the AI that has ended in a draw with the ninth move.
C15_Witness ==
  /\ pc = "over" /\ vs_ai /\ moves_applied = NumCells /\ is_draw(board)
  /\ \A i \in Cells : board[i] # Empty

=============================================================================
